---- MODULE Spec2Model ----
(***************************************************************************)
(* Toolchain orchestration core of the LEGO SPIKE Python portal backend:   *)
(* the firmware router (install / install-latest / restore-local /         *)
(* restore-bundled) and the compiler router (check / compile /             *)
(* compile-download).                                                      *)
(* One request is followed through its handler step by step; the host's    *)
(* temporary area, the spawned processes and the response are the state.   *)
(*                                                                         *)
(* Texts (process output, file names, paths) are sequences of tokens; a    *)
(* token is a chunk of characters that the code's substring tests never    *)
(* split ("No", "DFU", ".", "/", ".py", ...), so that `x in output`,       *)
(* str.replace, str.lower and os.path.join are computed, not assumed.      *)
(***************************************************************************)
EXTENDS Naturals, Sequences, FiniteSets, TLC

VARIABLES
    op,         \* the handler serving the current request, or "idle"
    pc,         \* its position: "idle", a step name, or "done"
    filename,   \* the request's filename (upload name or CompileRequest.filename)
    body,       \* upload or download content ("empty"/"data"), or the lines
                \* of request.source_code
    tmp_name,   \* tmp.name of the handler's NamedTemporaryFile (<<>> when none)
    temp_path,  \* the handler's local temp_path ("" is <<>>)
    tmpdir,     \* the TemporaryDirectory of a compile request (<<>> when none)
    fs,         \* what exists under the host's temporary area: [dirs, files]
    created,    \* canonical paths the current request's handler created
    procs,      \* processes of the current request still running
    spawns,     \* subprocess.run invocations made by the current request
    argv,       \* path arguments of the request's subprocess invocation
    result,     \* what became of the invocation: [ended, rc, stdout, stderr],
                \* ended "none", "not_spawned", "killed" or "exited"
    response,   \* what the caller receives
    env,        \* what the request found on the host: [python, pybricksdev,
                \* mpycross, bundled, parse], each "unknown" until the handler
                \* looks; parse is what the builtin compile() raised ("none"
                \* when it returned)
    nextTmp,    \* tempfile's source of fresh names
    served,     \* requests served so far
    latest,     \* what _get_latest_stable_primehub_asset_url met and chose:
                \* [reachable, assets, asset], until the download starts
    \* The worker process serving several requests at once:
    reqs,       \* the requests in the worker: id -> [kind, pc, name, tmp, staged]
    loopOwner,  \* the request whose coroutine runs on the event loop (0: none)
    disk,       \* the host's temporary area: [dirs, files]
    \* The email endpoint:
    clock,      \* time.time(), in seconds
    rate_limit, \* _rate_limit: client IP -> time of its last recorded send (0: none)
    accepted,   \* client IP -> time the mail server last accepted a message of it (0: none)
    mailResp,   \* the last response of send_program_email
    \* The program store:
    programs_db, \* programs_db: id -> stored record
    born,        \* id -> the time create_program set as created_at (0: never created)
    utcnow,      \* datetime.utcnow()
    storeResp,   \* the status of the store's last response
    \* The AI chat proxy:
    chat         \* one chat stream: [pc, provider, upstream, events]

\* The variables of one request followed through its handler.
toolVars == <<op, pc, filename, body, tmp_name, temp_path, tmpdir, fs, created, procs,
              spawns, argv, result, response, env, nextTmp, served, latest>>

\* The variables of the worker's event loop.
loopVars == <<reqs, loopOwner, disk>>

\* The variables of the email endpoint.
mailVars == <<clock, rate_limit, accepted, mailResp>>

\* The variables of the program store.
storeVars == <<programs_db, born, utcnow, storeResp>>

\* What a handler followed alone leaves untouched.
sideVars == <<loopVars, mailVars, storeVars, chat>>

\* What the worker's event loop and the email endpoint leave untouched.
notLoopVars == <<toolVars, mailVars, storeVars, chat>>
notMailVars == <<toolVars, loopVars, storeVars, chat>>
notStoreVars == <<toolVars, loopVars, mailVars, chat>>
notChatVars == <<toolVars, loopVars, mailVars, storeVars>>

vars == <<toolVars, sideVars>>

(***************************************************************************)
(* Bounds of the model.                                                    *)
(***************************************************************************)
\* Requests served one after another.
MaxRequests == 2
\* Messages a flasher process writes to stdout and stderr together.
MaxMsgs == 2
\* Assets listed by the latest release.
MaxAssets == 2
\* Lines of a source text.
MaxLines == 2

(***************************************************************************)
(* Texts.                                                                  *)
(***************************************************************************)
NL == "\n"

\* x in text, for token sequences.
Contains(text, pat) ==
    \E i \in 1..(Len(text) + 1) :
        /\ i + Len(pat) - 1 <= Len(text)
        /\ SubSeq(text, i, i + Len(pat) - 1) = pat

EndsWith(text, suffix) ==
    /\ Len(suffix) <= Len(text)
    /\ SubSeq(text, Len(text) - Len(suffix) + 1, Len(text)) = suffix

\* str.lower() on the tokens whose case the code looks at.
LowerTok(t) ==
    CASE t = ".ZIP" -> ".zip"
      [] t = ".Zip" -> ".zip"
      [] t = ".BIN" -> ".bin"
      [] t = "PYBRICKS-PRIMEHUB-V" -> "pybricks-primehub-v"
      [] OTHER -> t

\* The text as it is, its case kept.
KeepCase(text) == text

Lower(text) == [i \in 1..Len(text) |-> LowerTok(text[i])]

\* The signatures the flasher's output is searched for.
SigNoLegoDfu == <<"No", "LEGO", "DFU", "USB", "device", "found">>
SigNoLegoDfuRuntime == <<"RuntimeError:">> \o SigNoLegoDfu
SigNoWorkingDfu == <<"No", "working", "DFU", "found", ".">>
SigDfuUtil == <<"dfu-util">>
SigNoDfu == <<"No", "DFU">>
SigPermission == <<"Permission", "to", "access", "USB", "device", "denied">>
SigNoDfuDevices == <<"No", "DFU", "devices", "found", ".">>

\* What the interpreter prints for `python -m pybricksdev` without the module.
MsgNoModule == <<"No", "module", "named", "pybricksdev">>

\* Lines a flasher process may print.
Messages ==
    { SigNoLegoDfuRuntime,
      SigNoWorkingDfu,
      <<"dfu-util", ":", "No", "DFU", "capable", "USB", "device", "available">>,
      SigNoDfuDevices,
      SigPermission,
      <<"Flashing", "done">> }

MsgSeqs == UNION { [1..n -> Messages] : n \in 0..MaxMsgs }

RECURSIVE JoinLines(_)
\* The lines of one stream, one after the other.
JoinLines(ms) ==
    IF ms = <<>> THEN <<>>
    ELSE IF Len(ms) = 1 THEN ms[1]
    ELSE ms[1] \o <<NL>> \o JoinLines(Tail(ms))

\* output = (result.stdout or "") + ("\n" + result.stderr if result.stderr else "")
CombinedOutput(r) ==
    r.stdout \o (IF r.stderr # <<>> THEN <<NL>> \o r.stderr ELSE <<>>)

(***************************************************************************)
(* Paths.                                                                  *)
(***************************************************************************)
SEP == "/"

\* os.path.join(a, b) on POSIX.
PathJoin(a, b) ==
    IF b # <<>> /\ Head(b) = SEP THEN b
    ELSE IF a = <<>> \/ a[Len(a)] = SEP THEN a \o b
    ELSE a \o <<SEP>> \o b

RECURSIVE SplitPath(_, _, _)
SplitPath(p, cur, acc) ==
    IF p = <<>> THEN (IF cur = <<>> THEN acc ELSE Append(acc, cur))
    ELSE IF Head(p) = SEP
         THEN SplitPath(Tail(p), <<>>, IF cur = <<>> THEN acc ELSE Append(acc, cur))
         ELSE SplitPath(Tail(p), Append(cur, Head(p)), acc)

RECURSIVE ResolveDots(_, _)
ResolveDots(cs, acc) ==
    IF cs = <<>> THEN acc
    ELSE IF Head(cs) = <<"..">>
         THEN ResolveDots(Tail(cs),
                          IF acc = <<>> THEN <<>> ELSE SubSeq(acc, 1, Len(acc) - 1))
         ELSE ResolveDots(Tail(cs), Append(acc, Head(cs)))

\* The file the operating system reaches for an absolute path: its components
\* with every ".." resolved.
Canon(p) == ResolveDots(SplitPath(p, <<>>, <<>>), <<>>)

\* Canonical path c lies below the canonical directory d.
IsUnder(c, d) == Len(c) > Len(d) /\ SubSeq(c, 1, Len(d)) = d

ParentOf(c) == SubSeq(c, 1, Len(c) - 1)

\* tempfile.gettempdir()
TempRoot == <<SEP, "tmp">>

\* Directories of the host that exist whatever the service does.
HostDirs == { <<>>, Canon(TempRoot) }

\* tempfile's fresh name number k, with a suffix (<<>> for a directory).
TempName(k, suffix) == PathJoin(TempRoot, <<"tmp", ToString(k)>> \o suffix)

BUNDLED_LEGO_RESTORE_BIN_PATH ==
    PathJoin(PathJoin(<<SEP, "BACKEND_ROOT_DIR">>, <<"firmware">>),
             <<"prime-v1.3.00.0000-e8c274a.15bc498f956dc12eda9f", ".bin">>)

Exists(fsv, p) == Canon(p) \in (fsv.dirs \cup fsv.files \cup HostDirs)

\* tempfile never hands out a name that exists: the least number no
\* temporary file or directory on the host carries.
NextFree(fsv) ==
    LET used(k) == \E suffix \in {<<>>, <<".zip">>, <<".bin">>} :
                       Exists(fsv, TempName(k, suffix))
        n == Cardinality(fsv.dirs \cup fsv.files) + 1
    IN  CHOOSE k \in 1..n : ~used(k) /\ \A j \in 1..(k - 1) : used(j)

\* os.remove(p)
RemoveFile(fsv, p) == [fsv EXCEPT !.files = @ \ {Canon(p)}]

\* TemporaryDirectory.cleanup(): the directory and everything below it.
RemoveTree(fsv, d) ==
    [dirs  |-> { c \in fsv.dirs : c # Canon(d) /\ ~IsUnder(c, Canon(d)) },
     files |-> { c \in fsv.files : ~IsUnder(c, Canon(d)) }]

(***************************************************************************)
(* The requests one worker process holds at a time.                        *)
(***************************************************************************)
MaxConc == 2

ReqIds == 1..MaxConc

\* A request the worker does not hold.
NoReq == [kind |-> "none", pc |-> "absent", name |-> <<>>, tmp |-> <<>>, staged |-> {}]

EmptyDisk == [dirs |-> {}, files |-> {}]

(***************************************************************************)
(* The program store's ids and times.                                      *)
(***************************************************************************)
MaxPrograms == 2
MaxStamp == 2

\* str(uuid.uuid4()): an id is never handed out twice.
ProgramIds == 1..MaxPrograms

(***************************************************************************)
(* The AI chat proxy's streams.                                            *)
(***************************************************************************)
MaxUpstream == 3

NoChat == [pc |-> "idle", provider |-> "none", upstream |-> <<>>, events |-> <<>>]

(***************************************************************************)
(* The email endpoint's clock and clients.                                 *)
(***************************************************************************)
RATE_LIMIT_SECONDS == 60

\* The clock reads more than the limit when the service starts, and the
\* model follows it for MaxElapsed seconds.
StartTime == RATE_LIMIT_SECONDS
MaxElapsed == 125

\* request.client.host, or "unknown" for a request without a client address
ClientIps == {"10.0.0.1", "unknown"}

NoMail == [ip |-> "none", status |-> 0, retry_after |-> 0, contacted |-> FALSE]

(***************************************************************************)
(* Responses.                                                              *)
(***************************************************************************)
\* size, line and column are the fields of CompileResponse and
\* SyntaxCheckResponse; the other responses do not carry them (0).
NoResponse ==
    [kind |-> "none", status |-> 0, detail |-> "none",
     size |-> 0, line |-> 0, column |-> 0]
\* wrote: the process wrote the file it was asked for with -o
NoResult == [ended |-> "none", rc |-> 0, stdout |-> <<>>, stderr |-> <<>>, wrote |-> FALSE]
\* Popen raised: no process was started
NotSpawned == [NoResult EXCEPT !.ended = "not_spawned"]
\* the deadline expired and the child was killed: no CompletedProcess
Killed == [NoResult EXCEPT !.ended = "killed"]

\* raise HTTPException(status_code=status, detail=<the literal named detail>)
Http(status, detail) ==
    [NoResponse EXCEPT !.kind = "error", !.status = status, !.detail = detail]
\* a returned response model
Ok(detail) == [NoResponse EXCEPT !.kind = "ok", !.status = 200, !.detail = detail]
\* an exception no handler caught: it leaves the endpoint as it was raised
Raw(e) == [NoResponse EXCEPT !.kind = "raw", !.status = 500, !.detail = e]

\* _restore_firmware_bin with the permission rule tested before the "No DFU" rule.
RestoreClassifyPermissionFirst(output) ==
    IF Contains(output, SigNoLegoDfu) \/ Contains(output, SigNoLegoDfuRuntime)
    THEN Http(400, "no_lego_dfu_usb_device_found")
    ELSE IF Contains(output, SigNoWorkingDfu) \/ Contains(output, SigDfuUtil)
    THEN Http(501, "restore_prerequisites_missing")
    ELSE IF Contains(output, SigPermission)
    THEN Http(403, "usb_permission_denied")
    ELSE IF Contains(output, SigNoDfu)
    THEN Http(400, "no_dfu_device_found_short")
    ELSE Http(500, "pybricksdev_restore_failed")

\* _restore_firmware_bin, the branch result.returncode != 0.
RestoreClassify(output) ==
    IF Contains(output, SigNoLegoDfu) \/ Contains(output, SigNoLegoDfuRuntime)
    THEN Http(400, "no_lego_dfu_usb_device_found")
    ELSE IF Contains(output, SigNoWorkingDfu) \/ Contains(output, SigDfuUtil)
    THEN Http(501, "restore_prerequisites_missing")
    ELSE IF Contains(output, SigNoDfu)
    THEN Http(400, "no_dfu_device_found_short")
    ELSE IF Contains(output, SigPermission)
    THEN Http(403, "usb_permission_denied")
    ELSE Http(500, "pybricksdev_restore_failed")

\* _flash_firmware_zip, the branch result.returncode != 0.
FlashClassify(output) ==
    IF Contains(output, SigNoDfuDevices)
    THEN Http(400, "install_no_dfu_device_found")
    ELSE Http(500, "pybricksdev_flash_failed")

\* What each detail literal of the firmware router tells the user to do.
RemediationSteps(detail) ==
    CASE detail = "no_lego_dfu_usb_device_found" ->
            {"unplug_usb", "power_off", "hold_button", "connect_usb_while_holding",
             "hold_until_led_cycles", "retry", "lsusb"}
      [] detail = "restore_prerequisites_missing" ->
            {"install_packages", "unplug_usb", "power_off", "hold_button",
             "connect_usb", "hold_until_led_cycles", "udev_rule"}
      [] detail = "no_dfu_device_found_short" ->
            {"connect_usb", "retry"}
      [] detail = "usb_permission_denied" ->
            {"udev_rule", "reconnect"}
      [] detail = "install_no_dfu_device_found" ->
            {"unplug_usb", "power_off", "hold_button", "connect_usb_while_holding",
             "hold_until_led_cycles", "retry"}
      [] OTHER -> {}

(***************************************************************************)
(* Release resolver.                                                       *)
(***************************************************************************)
DigitTokens == {"0", "1", "3", "6", "10"}

\* re.compile(r"^pybricks-primehub-v\d+\.\d+\.\d+\.zip$", re.IGNORECASE).match(name)
MatchesPattern(name) ==
    /\ Len(name) = 7
    /\ LowerTok(name[1]) = "pybricks-primehub-v"
    /\ name[2] \in DigitTokens
    /\ name[3] = "."
    /\ name[4] \in DigitTokens
    /\ name[5] = "."
    /\ name[6] \in DigitTokens
    /\ LowerTok(name[7]) = ".zip"

NoAsset == [name |-> <<>>, url |-> ""]

RECURSIVE LastMatch(_)
\* The loop going on to the end of the list and keeping its last hit.
LastMatch(assets) ==
    IF assets = <<>> THEN NoAsset
    ELSE IF LastMatch(Tail(assets)) # NoAsset
         THEN LastMatch(Tail(assets))
         ELSE IF MatchesPattern(Head(assets).name) /\ Head(assets).url # ""
              THEN Head(assets)
              ELSE NoAsset

RECURSIVE FirstMatch(_)
\* The loop over assets of _get_latest_stable_primehub_asset_url.
FirstMatch(assets) ==
    IF assets = <<>> THEN NoAsset
    ELSE IF MatchesPattern(Head(assets).name) /\ Head(assets).url # ""
         THEN Head(assets)
         ELSE FirstMatch(Tail(assets))

\* Assets a release may list.
Assets ==
    { [name |-> <<"pybricks-primehub-v", "3", ".", "6", ".", "1", ".zip">>, url |-> "url_a"],
      [name |-> <<"PYBRICKS-PRIMEHUB-V", "3", ".", "10", ".", "0", ".ZIP">>, url |-> "url_b"],
      [name |-> <<"pybricks-primehub-v", "3", ".", "6", ".", "1", ".zip">>, url |-> ""],
      [name |-> <<"pybricks-primehub-v", "3", ".", "6", ".", "1", "b2", ".zip">>, url |-> "url_c"],
      [name |-> <<"pybricks-cityhub-v", "3", ".", "6", ".", "1", ".zip">>, url |-> "url_d"] }

AssetLists == UNION { [1..n -> Assets] : n \in 0..MaxAssets }

\* No release has been asked for.
NoRelease == [queried |-> FALSE, reachable |-> FALSE, assets |-> <<>>, asset |-> NoAsset]

(***************************************************************************)
(* Exception handlers and finally blocks of the endpoints.                 *)
(***************************************************************************)
\* install_pybricks_firmware: except FileNotFoundError / except TimeoutExpired
InstallExcept(e) ==
    CASE e = "FileNotFoundError" -> Http(501, "pybricksdev_is_not_installed")
      [] e = "TimeoutExpired" -> Http(408, "firmware_flashing_timed_out")
      [] OTHER -> Raw(e)

\* install_latest_stable_primehub_firmware: the same two handlers
InstallLatestExcept(e) ==
    CASE e = "FileNotFoundError" -> Http(501, "pybricksdev_is_not_installed")
      [] e = "TimeoutExpired" -> Http(408, "firmware_flashing_timed_out")
      [] OTHER -> Raw(e)

\* restore_lego_firmware_from_local_backup: the same two handlers
RestoreLocalExcept(e) ==
    CASE e = "FileNotFoundError" -> Http(501, "pybricksdev_is_not_installed")
      [] e = "TimeoutExpired" -> Http(408, "firmware_restore_timed_out")
      [] OTHER -> Raw(e)

\* restore_lego_firmware_from_bundled_bin has no try statement.
RestoreBundledExcept(e) == Raw(e)

\* compile_program answering a missing executable as compile_and_download does.
CompileExceptHard(e) ==
    CASE e = "FileNotFoundError" -> Http(501, "mpy_cross_is_not_installed")
      [] e = "TimeoutExpired" -> Http(408, "compilation_timed_out")
      [] OTHER -> Raw(e)

\* compile_program: except FileNotFoundError / except TimeoutExpired
CompileExcept(e) ==
    CASE e = "FileNotFoundError" -> Ok("syntax_valid_mpy_cross_not_available")
      [] e = "TimeoutExpired" -> Http(408, "compilation_timed_out")
      [] OTHER -> Raw(e)

\* compile_and_download: except FileNotFoundError only
DownloadExcept(e) ==
    CASE e = "FileNotFoundError" -> Http(501, "mpy_cross_is_not_installed")
      [] OTHER -> Raw(e)

\* The response an exception e raised inside handler o ends in.
OnException(o, e) ==
    CASE o = "install" -> InstallExcept(e)
      [] o = "install_latest" -> InstallLatestExcept(e)
      [] o = "restore_local" -> RestoreLocalExcept(e)
      [] o = "restore_bundled" -> RestoreBundledExcept(e)
      [] o = "compile" -> CompileExcept(e)
      [] o = "compile_download" -> DownloadExcept(e)
      [] o \in {"check_syntax", "compile_syntax"} -> Raw(e)

\* finally: if temp_path and os.path.exists(temp_path): os.remove(temp_path)
FinallyRemoveTemp(fsv, tp) ==
    IF tp # <<>> /\ Exists(fsv, tp) THEN RemoveFile(fsv, tp) ELSE fsv

\* Only the finally blocks of the firmware endpoints clean up.
CleanupKeepsWorkspace(o, fsv, tp, td) ==
    IF o \in {"install", "install_latest", "restore_local"}
    THEN FinallyRemoveTemp(fsv, tp)
    ELSE fsv

\* What the handler's finally block or context manager leaves on disk.
Cleanup(o, fsv, tp, td) ==
    CASE o \in {"install", "install_latest", "restore_local"} -> FinallyRemoveTemp(fsv, tp)
      [] o \in {"compile", "compile_download"} ->
            (IF td # <<>> THEN RemoveTree(fsv, td) ELSE fsv)
      [] OTHER -> fsv

FlashOps == {"install", "install_latest", "restore_local", "restore_bundled"}
CompileOps == {"compile", "compile_download"}

\* The handler ends with response resp (returned or raised).
FinishWith(resp) ==
    /\ response' = resp
    /\ fs' = Cleanup(op, fs, temp_path, tmpdir)
    /\ pc' = "done"
    /\ UNCHANGED <<op, filename, body, tmp_name, temp_path, tmpdir, created,
                   env, nextTmp, served, latest, sideVars>>

\* Exception e is raised inside the handler's try statement.
RaiseExc(e) == FinishWith(OnException(op, e))

\* The host as far as no handler has looked at it.
UnknownEnv ==
    [python |-> "unknown", pybricksdev |-> "unknown",
     mpycross |-> "unknown", bundled |-> "unknown", parse |-> "unknown"]

Presence == {"present", "missing"}

\* A request arrives at handler o: the handler's locals are fresh.
StartRequest(o, name, content) ==
    /\ op = "idle"
    /\ served < MaxRequests
    /\ op' = o
    /\ filename' = name
    /\ body' = content
    /\ served' = served + 1
    /\ UNCHANGED <<tmp_name, temp_path, tmpdir, created, procs, spawns, argv,
                   result, nextTmp, latest, sideVars>>

(***************************************************************************)
(* subprocess.run([sys.executable, "-m", "pybricksdev", ...], timeout=300) *)
(***************************************************************************)
\* The ways a spawned flasher process ends by itself.  Without the
\* pybricksdev module the interpreter prints "No module named pybricksdev"
\* and exits 1.  The handlers read the two streams only joined, and lines
\* spread over both streams join to the text the same lines give on stdout
\* alone: one of the streams is left empty.
FlasherExits(installed) ==
    IF installed = "present"
    THEN { [NoResult EXCEPT !.ended = "exited", !.rc = rc,
                            !.stdout = JoinLines(p[1]), !.stderr = JoinLines(p[2])] :
             rc \in {0, 1},
             p \in { q \in MsgSeqs \X MsgSeqs :
                        /\ Len(q[1]) + Len(q[2]) <= MaxMsgs
                        /\ q[1] = <<>> \/ q[2] = <<>> } }
    ELSE { [NoResult EXCEPT !.ended = "exited", !.rc = 1, !.stderr = MsgNoModule] }

\* Popen: the interpreter sys.executable is started on the image path, or
\* FileNotFoundError when the interpreter itself is gone.
SpawnFlasher(image, waitPc) ==
    \E py \in Presence :
        /\ env' = [env EXCEPT !.python = py]
        /\ IF py = "missing"
           THEN /\ response' = OnException(op, "FileNotFoundError")
                /\ fs' = Cleanup(op, fs, temp_path, tmpdir)
                /\ pc' = "done"
                /\ result' = NotSpawned
                /\ UNCHANGED <<procs, spawns, argv>>
           ELSE /\ procs' = {"child"}
                /\ spawns' = spawns + 1
                /\ argv' = <<image>>
                /\ pc' = waitPc
                /\ UNCHANGED <<response, fs, result>>
        /\ UNCHANGED <<op, filename, body, tmp_name, temp_path, tmpdir, created,
                       nextTmp, served, latest, sideVars>>

\* The 300 s deadline expires: subprocess.run kills and reaps the child it
\* started, and no other process, then raises TimeoutExpired.  descendants
\* tells whether the child had started processes of its own.
FlasherTimeout(descendants) ==
    /\ env' = [env EXCEPT !.pybricksdev = "present"]
    /\ procs' = IF descendants THEN {"descendant"} ELSE {}
    /\ response' = OnException(op, "TimeoutExpired")
    /\ fs' = Cleanup(op, fs, temp_path, tmpdir)
    /\ pc' = "done"
    /\ result' = Killed
    /\ UNCHANGED <<op, filename, body, tmp_name, temp_path, tmpdir, created,
                   spawns, argv, nextTmp, served, latest, sideVars>>

(***************************************************************************)
(* POST /pybricks/install                                                  *)
(***************************************************************************)
UploadNames == { <<>>, <<"pybricks", ".zip">>, <<"FW", ".ZIP">>, <<"backup", ".bin">> }
UploadBodies == {"empty", "data"}

\* filename = firmware.filename or "firmware.zip", and the suffix check.
\* The variable filename keeps firmware.filename as it was sent.
InstallBegin(name, content) ==
    LET fname == IF name = <<>> THEN <<"firmware", ".zip">> ELSE name IN
    /\ StartRequest("install", name, content)
    /\ IF ~EndsWith(Lower(fname), <<".zip">>)
       THEN /\ response' = Http(400, "firmware_file_must_be_a_zip_archive")
            /\ pc' = "done"
       ELSE /\ response' = NoResponse
            /\ pc' = "create_temp"
    /\ UNCHANGED <<fs, env>>

\* with tempfile.NamedTemporaryFile(delete=False, suffix=".zip") as tmp:
InstallCreateTemp ==
    /\ op = "install" /\ pc = "create_temp"
    /\ tmp_name' = TempName(nextTmp, <<".zip">>)
    /\ fs' = [fs EXCEPT !.files = @ \cup {Canon(tmp_name')}]
    /\ created' = created \cup {Canon(tmp_name')}
    /\ nextTmp' = nextTmp + 1
    /\ pc' = "read_upload"
    /\ UNCHANGED <<op, filename, body, temp_path, tmpdir, procs, spawns, argv,
                   result, response, env, served, latest, sideVars>>

\* The upload is written and flashed without the empty check.
InstallReadUploadUnchecked ==
    /\ op = "install" /\ pc = "read_upload"
    /\ temp_path' = tmp_name
    /\ pc' = "flash"
    /\ UNCHANGED <<op, filename, body, tmp_name, tmpdir, fs, created,
                   response, env, nextTmp, served, latest, sideVars>>
    /\ UNCHANGED <<procs, spawns, argv, result>>

\* content = await firmware.read(); the empty check; tmp.write; temp_path = tmp.name
InstallReadUpload ==
    /\ op = "install" /\ pc = "read_upload"
    /\ IF body = "empty"
       THEN FinishWith(Http(400, "uploaded_firmware_file_is_empty"))
       ELSE /\ temp_path' = tmp_name
            /\ pc' = "flash"
            /\ UNCHANGED <<op, filename, body, tmp_name, tmpdir, fs, created,
                           response, env, nextTmp, served, latest, sideVars>>
    /\ UNCHANGED <<procs, spawns, argv, result>>

(***************************************************************************)
(* _flash_firmware_zip(zip_path), called by both install endpoints          *)
(***************************************************************************)
FlashSpawn ==
    /\ op \in {"install", "install_latest"} /\ pc = "flash"
    /\ SpawnFlasher(temp_path, "flash_wait")

FlashTimeout ==
    /\ op \in {"install", "install_latest"} /\ pc = "flash_wait"
    /\ \E d \in BOOLEAN : FlasherTimeout(d)

\* The process exits: the output is classified, or the endpoint returns.
FlashExit ==
    /\ op \in {"install", "install_latest"} /\ pc = "flash_wait"
    /\ \E installed \in Presence :
         /\ env' = [env EXCEPT !.pybricksdev = installed]
         /\ \E r \in FlasherExits(installed) :
              /\ result' = r
              /\ procs' = {}
              /\ response' =
                    IF r.rc # 0 THEN FlashClassify(CombinedOutput(r))
                    ELSE IF op = "install" THEN Ok("pybricks_firmware_installed")
                    ELSE Ok("installed_latest_stable_primehub_firmware")
    /\ fs' = Cleanup(op, fs, temp_path, tmpdir)
    /\ pc' = "done"
    /\ UNCHANGED <<op, filename, body, tmp_name, temp_path, tmpdir, created,
                   spawns, argv, nextTmp, served, latest, sideVars>>

(***************************************************************************)
(* POST /pybricks/install/primehub/stable                                  *)
(***************************************************************************)
InstallLatestBegin ==
    /\ StartRequest("install_latest", <<>>, "none")
    /\ response' = NoResponse
    /\ pc' = "resolve"
    /\ UNCHANGED <<fs, env>>

\* asset_name, asset_url = _get_latest_stable_primehub_asset_url()
\* reachable: urlopen and json.loads completed; assets: the list of the latest
\* release, whether or not it could be fetched.
ResolveLatest(reachable, assets) ==
    LET found == FirstMatch(assets) IN
    /\ op = "install_latest" /\ pc = "resolve"
    /\ latest' = [queried |-> TRUE, reachable |-> reachable, assets |-> assets,
                  asset |-> IF reachable THEN found ELSE NoAsset]
    /\ UNCHANGED sideVars
    /\ IF ~reachable
       THEN /\ response' = Http(502, "failed_to_fetch_latest_release_metadata")
            /\ pc' = "done"
            /\ UNCHANGED filename
       ELSE IF found = NoAsset
       THEN /\ response' = Http(404, "could_not_find_stable_primehub_asset")
            /\ pc' = "done"
            /\ UNCHANGED filename
       ELSE /\ filename' = found.name
            /\ pc' = "download"
            /\ UNCHANGED response
    /\ fs' = IF pc' = "done" THEN Cleanup(op, fs, temp_path, tmpdir) ELSE fs
    /\ UNCHANGED <<op, body, tmp_name, temp_path, tmpdir, created, env, nextTmp,
                   served, procs, spawns, argv, result>>

\* The download keeps whatever body it is given, the empty one too.
DownloadLatestKeepsEmpty(outcome) ==
    /\ op = "install_latest" /\ pc = "download"
    /\ latest' = NoRelease
    /\ UNCHANGED sideVars
    /\ body' = IF outcome = "error" THEN body ELSE outcome
    /\ IF outcome = "error"
       THEN /\ response' = Http(502, "failed_to_download_firmware_archive")
            /\ fs' = Cleanup(op, fs, temp_path, tmpdir)
            /\ pc' = "done"
       ELSE /\ pc' = "stage"
            /\ UNCHANGED <<response, fs>>
    /\ UNCHANGED <<op, filename, tmp_name, temp_path, tmpdir, created, env,
                   nextTmp, served, procs, spawns, argv, result>>

\* firmware_bytes = urlopen(req, timeout=60).read(), and the empty check.
\* body is what was read; the release metadata is not used any further.
DownloadLatest(outcome) ==
    /\ op = "install_latest" /\ pc = "download"
    /\ latest' = NoRelease
    /\ UNCHANGED sideVars
    /\ body' = IF outcome = "error" THEN body ELSE outcome
    /\ CASE outcome = "error" ->
                /\ response' = Http(502, "failed_to_download_firmware_archive")
                /\ fs' = Cleanup(op, fs, temp_path, tmpdir)
                /\ pc' = "done"
         [] outcome = "empty" ->
                /\ response' = Http(502, "downloaded_firmware_archive_is_empty")
                /\ fs' = Cleanup(op, fs, temp_path, tmpdir)
                /\ pc' = "done"
         [] outcome = "data" ->
                /\ pc' = "stage"
                /\ UNCHANGED <<response, fs>>
    /\ UNCHANGED <<op, filename, tmp_name, temp_path, tmpdir, created, env,
                   nextTmp, served, procs, spawns, argv, result>>

\* with NamedTemporaryFile(delete=False, suffix=".zip") as tmp: write; temp_path = tmp.name
StageLatest ==
    /\ op = "install_latest" /\ pc = "stage"
    /\ tmp_name' = TempName(nextTmp, <<".zip">>)
    /\ temp_path' = tmp_name'
    /\ fs' = [fs EXCEPT !.files = @ \cup {Canon(tmp_name')}]
    /\ created' = created \cup {Canon(tmp_name')}
    /\ nextTmp' = nextTmp + 1
    /\ pc' = "flash"
    /\ UNCHANGED <<op, filename, body, tmpdir, procs, spawns, argv, result,
                   response, env, served, latest, sideVars>>

(***************************************************************************)
(* POST /lego/restore/local                                                *)
(***************************************************************************)
\* filename = backup.filename or "firmware-backup.bin", and the suffix check.
\* The variable filename keeps backup.filename as it was sent.
RestoreLocalBegin(name, content) ==
    LET fname == IF name = <<>> THEN <<"firmware-backup", ".bin">> ELSE name IN
    /\ StartRequest("restore_local", name, content)
    /\ IF ~EndsWith(Lower(fname), <<".bin">>)
       THEN /\ response' = Http(400, "backup_file_must_be_a_bin_file")
            /\ pc' = "done"
       ELSE /\ response' = NoResponse
            /\ pc' = "create_temp"
    /\ UNCHANGED <<fs, env>>

\* with tempfile.NamedTemporaryFile(delete=False, suffix=".bin") as tmp:
RestoreLocalCreateTemp ==
    /\ op = "restore_local" /\ pc = "create_temp"
    /\ tmp_name' = TempName(nextTmp, <<".bin">>)
    /\ fs' = [fs EXCEPT !.files = @ \cup {Canon(tmp_name')}]
    /\ created' = created \cup {Canon(tmp_name')}
    /\ nextTmp' = nextTmp + 1
    /\ pc' = "read_upload"
    /\ UNCHANGED <<op, filename, body, temp_path, tmpdir, procs, spawns, argv,
                   result, response, env, served, latest, sideVars>>

\* content = await backup.read(); the empty check; tmp.write; temp_path = tmp.name
RestoreLocalReadUpload ==
    /\ op = "restore_local" /\ pc = "read_upload"
    /\ IF body = "empty"
       THEN FinishWith(Http(400, "uploaded_backup_file_is_empty"))
       ELSE /\ temp_path' = tmp_name
            /\ pc' = "restore"
            /\ UNCHANGED <<op, filename, body, tmp_name, tmpdir, fs, created,
                           response, env, nextTmp, served, latest, sideVars>>
    /\ UNCHANGED <<procs, spawns, argv, result>>

(***************************************************************************)
(* POST /lego/restore/bundled                                              *)
(***************************************************************************)
\* if not os.path.exists(BUNDLED_LEGO_RESTORE_BIN_PATH): raise 404
RestoreBundledBegin(bundled) ==
    /\ StartRequest("restore_bundled", <<>>, "none")
    /\ env' = [env EXCEPT !.bundled = bundled]
    /\ IF bundled = "missing"
       THEN /\ response' = Http(404, "bundled_restore_bin_not_found")
            /\ pc' = "done"
       ELSE /\ response' = NoResponse
            /\ pc' = "restore"
    /\ UNCHANGED fs

(***************************************************************************)
(* _restore_firmware_bin(bin_path, source_label), called by both restores  *)
(***************************************************************************)
\* Every restore endpoint passing its temp_path.
BinPathArgTemp(o, tp) == tp

\* The bin_path argument each restore endpoint passes.
BinPathArg(o, tp) == IF o = "restore_bundled" THEN BUNDLED_LEGO_RESTORE_BIN_PATH ELSE tp

RestoreSpawn ==
    /\ op \in {"restore_local", "restore_bundled"} /\ pc = "restore"
    /\ SpawnFlasher(BinPathArg(op, temp_path), "restore_wait")

RestoreTimeout ==
    /\ op \in {"restore_local", "restore_bundled"} /\ pc = "restore_wait"
    /\ \E d \in BOOLEAN : FlasherTimeout(d)

\* The process exits: the output is classified, or the response is returned.
RestoreExit ==
    /\ op \in {"restore_local", "restore_bundled"} /\ pc = "restore_wait"
    /\ \E installed \in Presence :
         /\ env' = [env EXCEPT !.pybricksdev = installed]
         /\ \E r \in FlasherExits(installed) :
              /\ result' = r
              /\ procs' = {}
              /\ response' =
                    IF r.rc # 0 THEN RestoreClassify(CombinedOutput(r))
                    ELSE Ok("restored_lego_firmware")
    /\ fs' = Cleanup(op, fs, temp_path, tmpdir)
    /\ pc' = "done"
    /\ UNCHANGED <<op, filename, body, tmp_name, temp_path, tmpdir, created,
                   spawns, argv, nextTmp, served, latest, sideVars>>

(***************************************************************************)
(* The compiler router: steps written twice in the source, once in         *)
(* compile_program and once in compile_and_download.                       *)
(***************************************************************************)
CompileFileNames ==
    { <<"main", ".py">>,
      <<"..", SEP, "evil", ".py">>,
      <<SEP, "tmp", SEP, "evil", ".py">>,
      <<"sub", SEP, "main", ".py">>,
      <<"notes", ".txt">> }

\* A source text is its sequence of lines; a line is told by what the
\* parser makes of it:
\*   "stmt"    a well-formed statement,
\*   "broken"  a line the grammar rejects, such as "def f(:",
\*   "nul"     a line holding a null byte,
\*   "deep"    an expression nested deeper than the compiler's recursion limit.
LineKinds == {"stmt", "broken", "nul", "deep"}

SourceKinds == UNION { [1..n -> LineKinds] : n \in 0..MaxLines }

\* compile() returned a code object.
Parsed == [exc |-> "none", located |-> FALSE, lineno |-> 0, offset |-> 0]

\* The exception e raised by compile(); located is FALSE where e.lineno and
\* e.offset are None.
ParseError(e, located, lineno, offset) ==
    [exc |-> e, located |-> located, lineno |-> lineno, offset |-> offset]

\* The first line the parser or the compiler stops at, 0 when there is none.
FirstBad(src) ==
    IF \E i \in 1..Len(src) : src[i] \in {"broken", "deep"}
    THEN CHOOSE i \in 1..Len(src) :
            /\ src[i] \in {"broken", "deep"}
            /\ \A j \in 1..(i - 1) : src[j] \notin {"broken", "deep"}
    ELSE 0

\* What the builtin compile(source, name, "exec") can do on a source.  A null
\* byte is refused before parsing: with ValueError by older interpreters,
\* with a SyntaxError that carries no position by the newer ones.  A
\* rejected line raises SyntaxError at its 1-indexed line number; exhausted
\* recursion raises RecursionError or MemoryError.
ParseOutcomes(src) ==
    IF \E i \in 1..Len(src) : src[i] = "nul"
    THEN { ParseError("ValueError", FALSE, 0, 0), ParseError("SyntaxError", FALSE, 0, 0) }
    ELSE IF FirstBad(src) = 0
    THEN { Parsed }
    ELSE IF src[FirstBad(src)] = "broken"
    THEN { ParseError("SyntaxError", TRUE, FirstBad(src), 1) }
    ELSE { ParseError("RecursionError", FALSE, 0, 0), ParseError("MemoryError", FALSE, 0, 0) }

\* The line counted from 0.
LinenoFromZero(e) == IF e.located THEN e.lineno - 1 ELSE 0

\* e.lineno or 0
LinenoOr0(e) == IF e.located THEN e.lineno ELSE 0

\* e.offset or 0
OffsetOr0(e) == IF e.located THEN e.offset ELSE 0

\* Bytes of a file mpy-cross writes: the header and the bytecode.
MpyBytes == <<"M", "version", "flags", "bytecode">>

\* request.filename.replace(".py", ".mpy")
ReplacePy(name) == [i \in 1..Len(name) |-> IF name[i] = ".py" THEN ".mpy" ELSE name[i]]

\* source_path = os.path.join(tmpdir, request.filename)
SourcePath(td, name) == PathJoin(td, name)

\* output_path = os.path.join(tmpdir, request.filename.replace(".py", ".mpy"))
OutputPath(td, name) == PathJoin(td, ReplacePy(name))

\* with tempfile.TemporaryDirectory() as tmpdir:
MakeTmpDir(o) ==
    /\ op = o /\ pc = "mkdtemp"
    /\ tmpdir' = TempName(nextTmp, <<>>)
    /\ fs' = [fs EXCEPT !.dirs = @ \cup {Canon(tmpdir')}]
    /\ created' = created \cup {Canon(tmpdir')}
    /\ nextTmp' = nextTmp + 1
    /\ pc' = "write_source"
    /\ UNCHANGED <<op, filename, body, tmp_name, temp_path, procs, spawns, argv,
                   result, response, env, served, latest, sideVars>>

\* with open(source_path, "w") as f: f.write(request.source_code)
WriteSource(o) ==
    LET c == Canon(SourcePath(tmpdir, filename)) IN
    /\ op = o /\ pc = "write_source"
    /\ IF c \in (fs.dirs \cup HostDirs)
       THEN RaiseExc("IsADirectoryError")
       ELSE IF ParentOf(c) \notin (fs.dirs \cup HostDirs)
       THEN RaiseExc("FileNotFoundError")
       ELSE /\ fs' = [fs EXCEPT !.files = @ \cup {c}]
            /\ created' = created \cup {c}
            /\ pc' = "spawn"
            /\ UNCHANGED <<op, filename, body, tmp_name, temp_path, tmpdir,
                           response, env, nextTmp, served, latest, sideVars>>
    /\ UNCHANGED <<procs, spawns, argv, result>>

\* A handler that runs the compiler again while the first run is pending.
SpawnCompilerRetrying(o) ==
    /\ op = o /\ pc \in {"spawn", "compile_wait"}
    /\ \E mc \in Presence :
        /\ env' = [env EXCEPT !.mpycross = mc]
        /\ IF mc = "missing"
           THEN /\ response' = OnException(op, "FileNotFoundError")
                /\ fs' = Cleanup(op, fs, temp_path, tmpdir)
                /\ pc' = "done"
                /\ result' = NotSpawned
                /\ UNCHANGED <<procs, spawns, argv>>
           ELSE /\ procs' = {"child"}
                /\ spawns' = spawns + 1
                /\ argv' = <<OutputPath(tmpdir, filename), SourcePath(tmpdir, filename)>>
                /\ pc' = "compile_wait"
                /\ UNCHANGED <<response, fs, result>>
    /\ UNCHANGED <<op, filename, body, tmp_name, temp_path, tmpdir, created,
                   nextTmp, served, latest, sideVars>>

\* subprocess.run(["mpy-cross", "-o", output_path, source_path], timeout=30): Popen
SpawnCompiler(o) ==
    /\ op = o /\ pc = "spawn"
    /\ \E mc \in Presence :
        /\ env' = [env EXCEPT !.mpycross = mc]
        /\ IF mc = "missing"
           THEN /\ response' = OnException(op, "FileNotFoundError")
                /\ fs' = Cleanup(op, fs, temp_path, tmpdir)
                /\ pc' = "done"
                /\ result' = NotSpawned
                /\ UNCHANGED <<procs, spawns, argv>>
           ELSE /\ procs' = {"child"}
                /\ spawns' = spawns + 1
                /\ argv' = <<OutputPath(tmpdir, filename), SourcePath(tmpdir, filename)>>
                /\ pc' = "compile_wait"
                /\ UNCHANGED <<response, fs, result>>
    /\ UNCHANGED <<op, filename, body, tmp_name, temp_path, tmpdir, created,
                   nextTmp, served, latest, sideVars>>

\* The 30 s deadline expires: subprocess.run kills and reaps the child it
\* started, and no other process, then raises TimeoutExpired.
CompilerTimeout(o) ==
    /\ op = o /\ pc = "compile_wait"
    /\ \E d \in BOOLEAN : procs' = IF d THEN {"descendant"} ELSE {}
    /\ RaiseExc("TimeoutExpired")
    /\ result' = Killed
    /\ UNCHANGED <<spawns, argv>>

\* What mpy-cross leaves on disk when it exits: with wrote, the artifact at
\* the -o path it was given.
AfterCompiler(fsv, wrote) ==
    IF wrote /\ ParentOf(Canon(argv[1])) \in (fsv.dirs \cup HostDirs)
    THEN [fsv EXCEPT !.files = @ \cup {Canon(argv[1])}]
    ELSE fsv

\* The exits of mpy-cross on a source: status and whether the artifact was
\* written.  A source that does not parse is never compiled.
CompilerExits(src) ==
    IF \A i \in 1..Len(src) : src[i] = "stmt"
    THEN { <<0, TRUE>>, <<0, FALSE>>, <<1, FALSE>> }
    ELSE { <<1, FALSE>> }

\* os.path.getsize(output_path) once mpy-cross has exited: the artifact's
\* size when one lies there, and the size of the staged source when the
\* output path is the source path and nothing was written over it.
OutputSize(wrote, td, name, src) ==
    IF ~wrote /\ Canon(OutputPath(td, name)) = Canon(SourcePath(td, name))
    THEN Len(src)
    ELSE Len(MpyBytes)

CompilerResult(rc, wrote) ==
    [ended |-> "exited", rc |-> rc, stdout |-> <<>>,
     stderr |-> IF rc = 0 THEN <<>> ELSE <<"SyntaxError:", "invalid", "syntax">>,
     wrote |-> wrote]

(***************************************************************************)
(* POST /check                                                             *)
(***************************************************************************)
\* The SyntaxCheckResponse, or the exception, that outcome e of compile()
\* ends in: only SyntaxError is caught.
SyntaxCheckResult(e) ==
    CASE e.exc = "none" -> Ok("valid")
      [] e.exc = "SyntaxError" ->
            [Ok("invalid") EXCEPT !.line = LinenoOr0(e), !.column = OffsetOr0(e)]
      [] OTHER -> OnException("check_syntax", e.exc)

CheckSyntax(src) ==
    /\ StartRequest("check_syntax", <<>>, src)
    /\ \E e \in ParseOutcomes(src) :
         /\ env' = [env EXCEPT !.parse = e.exc]
         /\ response' = SyntaxCheckResult(e)
    /\ pc' = "done"
    /\ UNCHANGED fs

(***************************************************************************)
(* POST /compile                                                           *)
(***************************************************************************)
\* The request goes on to the workspace without the syntax check.
CompileBeginUnchecked(src, name) ==
    /\ StartRequest("compile", name, src)
    /\ response' = NoResponse
    /\ pc' = "mkdtemp"
    /\ UNCHANGED <<fs, env>>

\* compile(request.source_code, request.filename, "exec"), except SyntaxError:
\* raise HTTPException(400, f"Syntax error at line {e.lineno}: {e.msg}")
CompileBegin(src, name) ==
    /\ StartRequest("compile", name, src)
    /\ \E e \in ParseOutcomes(src) :
         /\ env' = [env EXCEPT !.parse = e.exc]
         /\ CASE e.exc = "none" ->
                /\ response' = NoResponse
                /\ pc' = "mkdtemp"
           [] e.exc = "SyntaxError" ->
                /\ response' = [Http(400, "syntax_error_at_line") EXCEPT !.line = LinenoOr0(e)]
                /\ pc' = "done"
           [] OTHER ->
                /\ response' = OnException("compile_syntax", e.exc)
                /\ pc' = "done"
    /\ UNCHANGED fs

CompileMkdtemp == MakeTmpDir("compile")

CompileWriteSource == WriteSource("compile")

CompileSpawn == SpawnCompiler("compile")

CompileTimeout == CompilerTimeout("compile")

\* The process exits: returncode test, os.path.exists(output_path), getsize.
CompileExit ==
    /\ op = "compile" /\ pc = "compile_wait"
    /\ \E x \in CompilerExits(body) :
        LET after == AfterCompiler(fs, x[2]) IN
        /\ result' = CompilerResult(x[1], x[2])
        /\ procs' = {}
        /\ response' =
              IF x[1] # 0 THEN Http(400, "compilation_failed")
              ELSE IF Exists(after, OutputPath(tmpdir, filename))
              THEN [Ok("compiled_successfully_size") EXCEPT
                       !.size = OutputSize(x[2], tmpdir, filename, body)]
              ELSE Ok("compiled_successfully_size_unknown")
        /\ fs' = Cleanup(op, after, temp_path, tmpdir)
    /\ pc' = "done"
    /\ UNCHANGED <<op, filename, body, tmp_name, temp_path, tmpdir, created,
                   spawns, argv, env, nextTmp, served, latest, sideVars>>

(***************************************************************************)
(* POST /compile/download                                                  *)
(***************************************************************************)
DownloadBegin(src, name) ==
    /\ StartRequest("compile_download", name, src)
    /\ response' = NoResponse
    /\ pc' = "mkdtemp"
    /\ UNCHANGED <<fs, env>>

DownloadMkdtemp == MakeTmpDir("compile_download")

DownloadWriteSource == WriteSource("compile_download")

DownloadSpawn == SpawnCompiler("compile_download")

DownloadTimeout == CompilerTimeout("compile_download")

\* The process exits: returncode test, open(output_path, "rb"), Response.
DownloadExit ==
    /\ op = "compile_download" /\ pc = "compile_wait"
    /\ \E x \in CompilerExits(body) :
        LET after == AfterCompiler(fs, x[2]) IN
        /\ result' = CompilerResult(x[1], x[2])
        /\ procs' = {}
        /\ response' =
              IF x[1] # 0 THEN Http(400, "compilation_failed")
              ELSE IF Canon(OutputPath(tmpdir, filename)) \in after.files
              THEN Ok("mpy_attachment")
              ELSE IF Exists(after, OutputPath(tmpdir, filename))
              THEN OnException(op, "IsADirectoryError")
              ELSE OnException(op, "FileNotFoundError")
        /\ fs' = Cleanup(op, after, temp_path, tmpdir)
    /\ pc' = "done"
    /\ UNCHANGED <<op, filename, body, tmp_name, temp_path, tmpdir, created,
                   spawns, argv, env, nextTmp, served, latest, sideVars>>

\* The response has left the endpoint; the worker is free for the next request.
Return ==
    /\ pc = "done"
    /\ op' = "idle"
    /\ pc' = "idle"
    /\ filename' = <<>>
    /\ body' = "none"
    /\ tmp_name' = <<>>
    /\ temp_path' = <<>>
    /\ tmpdir' = <<>>
    /\ created' = {}
    /\ procs' = {}
    /\ spawns' = 0
    /\ argv' = <<>>
    /\ result' = NoResult
    /\ response' = NoResponse
    /\ env' = UnknownEnv
    /\ latest' = NoRelease
    /\ UNCHANGED sideVars
    /\ nextTmp' = NextFree(fs)
    /\ UNCHANGED <<fs, served>>

Init ==
    /\ op = "idle"
    /\ pc = "idle"
    /\ filename = <<>>
    /\ body = "none"
    /\ tmp_name = <<>>
    /\ temp_path = <<>>
    /\ tmpdir = <<>>
    /\ fs = [dirs |-> {}, files |-> {}]
    /\ created = {}
    /\ procs = {}
    /\ spawns = 0
    /\ argv = <<>>
    /\ result = NoResult
    /\ response = NoResponse
    /\ env = UnknownEnv
    /\ nextTmp = 1
    /\ served = 0
    /\ latest = NoRelease
    /\ reqs = [r \in ReqIds |-> NoReq]
    /\ loopOwner = 0
    /\ disk = EmptyDisk
    /\ clock = StartTime
    /\ rate_limit = [ip \in ClientIps |-> 0]
    /\ accepted = [ip \in ClientIps |-> 0]
    /\ mailResp = NoMail
    /\ programs_db = <<>>
    /\ born = [id \in ProgramIds |-> 0]
    /\ utcnow = 1
    /\ storeResp = 0
    /\ chat = NoChat

Next ==
    \/ \E name \in UploadNames, content \in UploadBodies : InstallBegin(name, content)
    \/ InstallCreateTemp
    \/ InstallReadUpload
    \/ FlashSpawn
    \/ FlashTimeout
    \/ FlashExit
    \/ InstallLatestBegin
    \/ \E reachable \in BOOLEAN, assets \in AssetLists : ResolveLatest(reachable, assets)
    \/ \E outcome \in {"error", "empty", "data"} : DownloadLatest(outcome)
    \/ StageLatest
    \/ \E name \in UploadNames, content \in UploadBodies : RestoreLocalBegin(name, content)
    \/ RestoreLocalCreateTemp
    \/ RestoreLocalReadUpload
    \/ \E bundled \in Presence : RestoreBundledBegin(bundled)
    \/ RestoreSpawn
    \/ RestoreTimeout
    \/ RestoreExit
    \/ \E src \in SourceKinds : CheckSyntax(src)
    \/ \E src \in SourceKinds, name \in CompileFileNames : CompileBegin(src, name)
    \/ CompileMkdtemp
    \/ CompileWriteSource
    \/ CompileSpawn
    \/ CompileTimeout
    \/ CompileExit
    \/ \E src \in SourceKinds, name \in CompileFileNames : DownloadBegin(src, name)
    \/ DownloadMkdtemp
    \/ DownloadWriteSource
    \/ DownloadSpawn
    \/ DownloadTimeout
    \/ DownloadExit
    \/ Return

Spec == Init /\ [][Next]_vars

(***************************************************************************)
(* The failure categories of the design, read off a response.              *)
(***************************************************************************)
Category(resp) ==
    CASE resp.kind = "ok" -> "Success"
      [] resp.kind = "raw" -> "Unhandled"
      [] resp.kind = "none" -> "None"
      [] resp.detail \in {"no_lego_dfu_usb_device_found", "no_dfu_device_found_short",
                          "install_no_dfu_device_found"} -> "DeviceNotFound"
      [] resp.detail = "restore_prerequisites_missing" -> "PrerequisitesMissing"
      [] resp.detail = "usb_permission_denied" -> "PermissionDenied"
      [] resp.detail \in {"pybricksdev_is_not_installed",
                          "mpy_cross_is_not_installed"} -> "ToolNotInstalled"
      [] resp.detail \in {"firmware_flashing_timed_out", "firmware_restore_timed_out",
                          "compilation_timed_out"} -> "Timeout"
      [] resp.detail \in {"pybricksdev_restore_failed",
                          "pybricksdev_flash_failed"} -> "UnknownFailure"
      [] resp.detail \in {"firmware_file_must_be_a_zip_archive",
                          "backup_file_must_be_a_bin_file",
                          "uploaded_firmware_file_is_empty",
                          "uploaded_backup_file_is_empty",
                          "syntax_error_at_line"} -> "ValidationError"
      [] resp.detail \in {"could_not_find_stable_primehub_asset",
                          "bundled_restore_bin_not_found"} -> "NotFound"
      [] resp.detail \in {"failed_to_fetch_latest_release_metadata",
                          "failed_to_download_firmware_archive",
                          "downloaded_firmware_archive_is_empty"} -> "UpstreamUnreachable"
      [] OTHER -> "CompileFailure"

InstallOps == {"install", "install_latest"}
RestoreOps == {"restore_local", "restore_bundled"}
UploadOps == {"install", "restore_local"}

\* The handler has returned after its flasher process exited nonzero.
FailedFlash(ops) ==
    pc = "done" /\ op \in ops /\ result.ended = "exited" /\ result.rc # 0

\* The physical sequence that puts the hub into its DFU bootloader.
ReentrySequence ==
    {"power_off", "hold_button", "connect_usb_while_holding", "hold_until_led_cycles"}

(***************************************************************************)
(* C1.  When an operation returns, whatever its outcome, no temporary      *)
(* directory or file that it created exists any more.                      *)
(***************************************************************************)
C1_NoTempLeftAtReturn ==
    pc = "done" => created \cap (fs.dirs \cup fs.files) = {}

C3_InstallClassifiesLikeRestore ==
    FailedFlash(InstallOps) =>
        Category(response) = Category(RestoreClassify(CombinedOutput(result)))

(***************************************************************************)
(* C4.  Every DeviceNotFound result of a flash operation carries the full  *)
(* DFU re-entry sequence.                                                  *)
(***************************************************************************)
C4_DeviceNotFoundCarriesReentry ==
    (FailedFlash(FlashOps) /\ Category(response) = "DeviceNotFound")
        => ReentrySequence \subseteq RemediationSteps(response.detail)

(***************************************************************************)
(* C5.  Every operation that invokes an external process reports an        *)
(* expired deadline as Timeout (408) and a process that could not be       *)
(* spawned as a structured response (an error, or for compile its          *)
(* no-toolchain answer): neither reaches the caller as a raw exception.    *)
(***************************************************************************)
C5_ProcessFailuresAreStructured ==
    (pc = "done" /\ op \in FlashOps \cup CompileOps) =>
        /\ result.ended = "killed" =>
              (Category(response) = "Timeout" /\ response.status = 408)
        /\ result.ended = "not_spawned" =>
              /\ response.kind # "raw"
              /\ op # "compile" => response.kind = "error"

(***************************************************************************)
(* C6.  When pybricksdev is not installed, every flash operation reports   *)
(* ToolNotInstalled (501) without having run a process.                    *)
(***************************************************************************)
C6_MissingFlasherIsToolNotInstalled ==
    (pc = "done" /\ op \in FlashOps /\ env.pybricksdev = "missing") =>
        /\ Category(response) = "ToolNotInstalled"
        /\ response.status = 501
        /\ spawns = 0

(***************************************************************************)
(* C7.  An install or restore upload with an empty body fails with a       *)
(* validation error (400), and no flasher process is spawned for it.       *)
(***************************************************************************)
C7_EmptyUploadNeverSpawns ==
    (op \in UploadOps /\ body = "empty") =>
        /\ spawns = 0
        /\ procs = {}
        /\ result.ended = "none"
        /\ pc = "done" =>
              (Category(response) = "ValidationError" /\ response.status = 400)

\* An empty upload with a good name was read and refused.
C7_Witness ==
    /\ pc = "done"
    /\ op \in UploadOps
    /\ body = "empty"
    /\ response.detail \in {"uploaded_firmware_file_is_empty",
                            "uploaded_backup_file_is_empty"}

(***************************************************************************)
(* C8.  An install or restore request with an empty body never has a       *)
(* temporary file created for it.                                          *)
(***************************************************************************)
C8_EmptyUploadNeverStaged ==
    (op \in UploadOps /\ body = "empty") => (created = {} /\ tmp_name = <<>>)

(***************************************************************************)
(* C9.  Every path handed to an external process lies in the workspace of  *)
(* its request: below the request's temporary directory for the            *)
(* cross-compiler, a file staged by the request for the flasher.           *)
(***************************************************************************)
C9_ArgvInsideWorkspace ==
    \A i \in 1..Len(argv) :
        IF op \in CompileOps
        THEN IsUnder(Canon(argv[i]), Canon(tmpdir))
        ELSE Canon(argv[i]) \in created

(***************************************************************************)
(* C10.  When the compile deadline expires the operation yields Timeout,   *)
(* and neither the spawned process nor a descendant of it is running when  *)
(* the call returns.                                                       *)
(***************************************************************************)
C10_TimeoutLeavesNoProcess ==
    (pc = "done" /\ op = "compile" /\ result.ended = "killed") =>
        /\ Category(response) = "Timeout"
        /\ procs = {}

(***************************************************************************)
(* Source texts as the design speaks of them.                              *)
(***************************************************************************)
\* The parser accepts the text.
ValidText(src) == \A e \in ParseOutcomes(src) : e.exc = "none"

\* The parser rejects the text with a syntax error, on every interpreter.
RejectedText(src) == \A e \in ParseOutcomes(src) : e.exc = "SyntaxError"

\* The current request's source is syntactically invalid: the grammar rejects
\* it, or this host's parser reported a syntax error on it.
InvalidSource == RejectedText(body) \/ env.parse = "SyntaxError"

\* The parser's syntax error on the current source names a line.
ErrorLocated == \E e \in ParseOutcomes(body) : e.exc = "SyntaxError" /\ e.located

\* The line the parser's syntax error names.
ErrorLine == FirstBad(body)

(***************************************************************************)
(* C11.  compile with the cross-compiler executable missing reports        *)
(* success with size 0 and the message that no bytecode was produced; a    *)
(* syntactically invalid program is reported as a failure (400); the two   *)
(* responses differ, and an invalid program is never reported as success,  *)
(* the toolchain missing or not.                                           *)
(***************************************************************************)
C11_SoftDegradeOnlyForValidPrograms ==
    (pc = "done" /\ op = "compile") =>
        /\ env.mpycross = "missing" =>
              /\ response.kind = "ok"
              /\ response.size = 0
              /\ response.detail = "syntax_valid_mpy_cross_not_available"
        /\ InvalidSource =>
              /\ response.kind = "error"
              /\ response.status = 400
              /\ response.detail # "syntax_valid_mpy_cross_not_available"
              /\ env.mpycross = "unknown"

\* A valid program met a host without mpy-cross.
C11_Witness ==
    /\ pc = "done" /\ op = "compile"
    /\ ValidText(body) /\ body # <<>>
    /\ env.mpycross = "missing"
    /\ response.kind = "ok"

(***************************************************************************)
(* C12.  compile-and-download with the cross-compiler executable missing   *)
(* fails with 501 and never succeeds; a success response carries the bytes *)
(* of an artifact the cross-compiler wrote in this request.                *)
(***************************************************************************)
C12_DownloadCarriesThisRequestsArtifact ==
    (pc = "done" /\ op = "compile_download") =>
        /\ env.mpycross = "missing" =>
              (response.kind = "error" /\ response.status = 501)
        /\ response.kind = "ok" =>
              /\ result.ended = "exited"
              /\ result.rc = 0
              /\ result.wrote

C14_DownloadFailsFastOnSyntax ==
    (op = "compile_download" /\ InvalidSource) =>
        /\ tmpdir = <<>>
        /\ created = {}
        /\ spawns = 0
        /\ pc = "done" =>
              (response.status = 400 /\ response.detail = "syntax_error_at_line")

(***************************************************************************)
(* Workspaces of the current request: the temporary directories it made.   *)
(***************************************************************************)
Workspaces ==
    { c \in created : \E k \in 1..nextTmp : c = Canon(TempName(k, <<>>)) }

\* Nothing of workspace w is left on the host.
Released(w) ==
    /\ w \notin fs.dirs
    /\ \A c \in fs.dirs \cup fs.files : ~IsUnder(c, w)

(***************************************************************************)
(* C15 as stated.  Every call of compile or compile-and-download acquires  *)
(* exactly one workspace and has released it when it returns, on every     *)
(* exit path, the early return on a syntax error included.                 *)
(***************************************************************************)
C15_ExactlyOneWorkspace ==
    (pc = "done" /\ op \in CompileOps) =>
        /\ Cardinality(Workspaces) = 1
        /\ \A w \in Workspaces : Released(w)

(***************************************************************************)
(* C15, amended.  A call of compile or compile-and-download never holds    *)
(* more than one workspace; it acquires one unless it is a compile call    *)
(* whose syntax check did not pass, which acquires none; and the workspace *)
(* it acquired is released when it returns, on every exit path.            *)
(***************************************************************************)
C15_AtMostOneWorkspaceReleased ==
    op \in CompileOps =>
        /\ Cardinality(Workspaces) <= 1
        /\ tmpdir # <<>> => Workspaces = {Canon(tmpdir)}
        /\ pc = "done" =>
              /\ \A w \in Workspaces : Released(w)
              /\ Workspaces = {} <=> (op = "compile" /\ env.parse # "none")

\* A compile-and-download call whose compiler failed has let its workspace go.
C15_Witness ==
    /\ pc = "done" /\ op = "compile_download"
    /\ result.ended = "exited" /\ result.rc # 0
    /\ Cardinality(Workspaces) = 1
    /\ \A w \in Workspaces : Released(w)

(***************************************************************************)
(* C16.  checkSyntax never throws: for every source text, those on which   *)
(* the parser fails with an error other than a syntax error included, it   *)
(* returns a result value.                                                 *)
(***************************************************************************)
C16_CheckSyntaxNeverThrows ==
    (pc = "done" /\ op = "check_syntax") =>
        /\ response.kind = "ok"
        /\ response.detail \in {"valid", "invalid"}

NameMatches(assets) == { i \in 1..Len(assets) : MatchesPattern(assets[i].name) }

\* Positions of the assets whose name matches and that have a download URL.
Downloadable(assets) == { i \in NameMatches(assets) : assets[i].url # "" }

\* The least position of a non-empty set of positions.
FirstOf(is) == CHOOSE i \in is : \A j \in is : i <= j

\* The resolver has answered and the handler has not gone further.
Resolved == op = "install_latest" /\ latest.queried

(***************************************************************************)
(* C18 as stated.  resolveLatestStableAsset returns the first asset of the *)
(* latest release whose name matches pybricks-primehub-vX.Y.Z.zip, case    *)
(* ignored; it fails with NotFound (404) exactly when no asset matches and *)
(* with UpstreamUnreachable (502) exactly when the query cannot complete.  *)
(***************************************************************************)
C18_FirstNameMatch ==
    Resolved =>
        LET ms == NameMatches(latest.assets) IN
        /\ response.status = 502 <=> ~latest.reachable
        /\ response.status = 404 <=> (latest.reachable /\ ms = {})
        /\ (latest.reachable /\ ms # {}) =>
              /\ latest.asset = latest.assets[FirstOf(ms)]
              /\ pc = "download"

(***************************************************************************)
(* C18, amended.  resolveLatestStableAsset returns the first asset of the  *)
(* latest release whose name matches the pattern, case ignored, and that   *)
(* has a download URL; it fails with NotFound (404) exactly when the query *)
(* completes and no asset is such, and with UpstreamUnreachable (502)      *)
(* exactly when the query cannot complete, whatever the assets are.        *)
(***************************************************************************)
C18_FirstDownloadableMatch ==
    Resolved =>
        LET ds == Downloadable(latest.assets) IN
        /\ response.status = 502 <=> ~latest.reachable
        /\ response.status = 404 <=> (latest.reachable /\ ds = {})
        /\ response.status = 502 => Category(response) = "UpstreamUnreachable"
        /\ response.status = 404 => Category(response) = "NotFound"
        /\ response.kind # "none" => (pc = "done" /\ latest.asset = NoAsset)
        /\ (latest.reachable /\ ds # {}) =>
              /\ latest.asset = latest.assets[FirstOf(ds)]
              /\ filename = latest.asset.name
              /\ pc = "download"
              /\ response.kind = "none"

\* Two different downloadable assets were listed and the first was returned.
C18_Witness ==
    /\ Resolved
    /\ latest.reachable
    /\ Len(latest.assets) = 2
    /\ Downloadable(latest.assets) = {1, 2}
    /\ latest.assets[1] # latest.assets[2]
    /\ latest.asset = latest.assets[1]

(***************************************************************************)
(* C19.  In install-latest a download with an empty body is answered with  *)
(* 502; then, and when the release resolution or the download fails, no    *)
(* file is staged and no flasher is spawned.                               *)
(***************************************************************************)
C19_FailedFetchNeverStagesOrSpawns ==
    op = "install_latest" =>
        /\ body = "empty" =>
              /\ pc = "done"
              /\ response.status = 502
              /\ Category(response) = "UpstreamUnreachable"
        /\ (pc = "done" /\ Category(response) \in {"UpstreamUnreachable", "NotFound"}) =>
              /\ created = {}
              /\ tmp_name = <<>>
              /\ temp_path = <<>>
              /\ spawns = 0
              /\ procs = {}
              /\ result.ended = "none"

\* The download came back empty and was refused.
C19_Witness ==
    /\ op = "install_latest" /\ pc = "done"
    /\ body = "empty"
    /\ response.detail = "downloaded_firmware_archive_is_empty"

(***************************************************************************)
(* C20.  restoreFromBundled fails with NotFound (404) when the bundled     *)
(* image is absent, without spawning the flasher; when it does spawn the   *)
(* flasher, the path handed over is the fixed bundled image path.          *)
(***************************************************************************)
C20_BundledRestoreUsesFixedImage ==
    op = "restore_bundled" =>
        /\ env.bundled = "missing" =>
              /\ pc = "done"
              /\ response.status = 404
              /\ Category(response) = "NotFound"
              /\ spawns = 0
              /\ procs = {}
              /\ result.ended = "none"
        /\ spawns > 0 =>
              /\ env.bundled = "present"
              /\ argv = <<BUNDLED_LEGO_RESTORE_BIN_PATH>>

\* The bundled image was there and the flasher was started on it.
C20_Witness ==
    /\ op = "restore_bundled"
    /\ env.bundled = "present"
    /\ spawns = 1
    /\ argv = <<BUNDLED_LEGO_RESTORE_BIN_PATH>>

(***************************************************************************)
(* Upload names as the design speaks of them.                              *)
(***************************************************************************)
\* The name's last piece is the extension, in any case.
HasExtension(name, spellings) == name # <<>> /\ name[Len(name)] \in spellings

ZipSpellings == {".zip", ".ZIP", ".Zip"}
BinSpellings == {".bin", ".BIN"}

\* The upload of the current request carries the extension its endpoint asks for.
WellNamedUpload ==
    \/ op = "install" /\ HasExtension(filename, ZipSpellings)
    \/ op = "restore_local" /\ HasExtension(filename, BinSpellings)

\* The request was refused for its name and has touched nothing.
RefusedForName ==
    /\ pc = "done"
    /\ response.status = 400
    /\ Category(response) = "ValidationError"
    /\ response.detail \in {"firmware_file_must_be_a_zip_archive",
                            "backup_file_must_be_a_bin_file"}
    /\ created = {} /\ tmp_name = <<>> /\ temp_path = <<>>
    /\ spawns = 0 /\ procs = {} /\ result.ended = "none"

(***************************************************************************)
(* C21 as stated.  An install upload whose filename does not end with .zip *)
(* and a restore upload whose filename does not end with .bin, case        *)
(* ignored, is rejected with a validation error (400) before a file is     *)
(* staged and before a process is spawned.                                 *)
(***************************************************************************)
C21_BadNameRejected ==
    (op \in UploadOps /\ ~WellNamedUpload) => RefusedForName

(***************************************************************************)
(* C21, amended.  An upload that carries a filename not ending with .zip   *)
(* (install) or .bin (restore), case ignored, is rejected with a           *)
(* validation error (400) before a file is staged and before a process is  *)
(* spawned; an upload without a filename is taken to be firmware.zip or    *)
(* firmware-backup.bin and is not rejected for its name, and neither is a  *)
(* well-named upload.                                                      *)
(***************************************************************************)
C21_NamedBadUploadRejected ==
    op \in UploadOps =>
        /\ (filename # <<>> /\ ~WellNamedUpload) => RefusedForName
        /\ (filename = <<>> \/ WellNamedUpload) => ~RefusedForName

\* A .bin file sent to install, and a .zip file sent to restore, was refused.
C21_Witness ==
    /\ op \in UploadOps
    /\ filename \in {<<"backup", ".bin">>, <<"pybricks", ".zip">>}
    /\ ~WellNamedUpload
    /\ RefusedForName

(***************************************************************************)
(* The worker process: every handler is a coroutine (async def) of one     *)
(* asyncio event loop.  A coroutine keeps the loop until it awaits; the    *)
(* only await of the toolchain handlers is the read of the upload, and     *)
(* subprocess.run is an ordinary blocking call.                            *)
(***************************************************************************)
LoopKinds == {"install", "compile", "check_syntax"}

\* The file names a compile request may carry; the last one is the name
\* tempfile gives to the first upload it stages.
LoopFileNames ==
    { <<"main", ".py">>,
      <<"..", SEP, "evil", ".py">>,
      TempName(1, <<".zip">>) }

\* The server accepts a request and schedules its handler.
Submit(r, kind, name) ==
    /\ reqs[r].pc = "absent"
    /\ name \in (IF kind = "compile" THEN LoopFileNames ELSE {<<>>})
    /\ reqs' = [reqs EXCEPT ![r] = [NoReq EXCEPT !.kind = kind, !.pc = "queued",
                                                 !.name = name]]
    /\ UNCHANGED <<loopOwner, disk, notLoopVars>>

\* check_syntax: compile(...) and the response, without leaving the loop.
BeginCheck(r) ==
    /\ loopOwner = 0
    /\ reqs[r].pc = "queued" /\ reqs[r].kind = "check_syntax"
    /\ reqs' = [reqs EXCEPT ![r].pc = "done"]
    /\ UNCHANGED <<loopOwner, disk, notLoopVars>>

\* install_pybricks_firmware up to `await firmware.read()`: the temporary
\* file exists; the read gives the loop away when the upload was spooled to
\* disk, and is answered on the spot when it is held in memory.
BeginInstall(r, spooled) ==
    LET t == TempName(NextFree(disk), <<".zip">>) IN
    /\ loopOwner = 0
    /\ reqs[r].pc = "queued" /\ reqs[r].kind = "install"
    /\ disk' = [disk EXCEPT !.files = @ \cup {Canon(t)}]
    /\ reqs' = [reqs EXCEPT ![r].tmp = t,
                            ![r].staged = {Canon(t)},
                            ![r].pc = IF spooled THEN "reading" ELSE "staged"]
    /\ loopOwner' = IF spooled THEN 0 ELSE r
    /\ UNCHANGED notLoopVars

\* The read is over: tmp.write(content); temp_path = tmp.name
ResumeInstall(r) ==
    /\ loopOwner = 0
    /\ reqs[r].pc = "reading"
    /\ reqs' = [reqs EXCEPT ![r].pc = "staged"]
    /\ loopOwner' = r
    /\ UNCHANGED <<disk, notLoopVars>>

\* compile_program up to the spawn: the workspace and the source file in it.
BeginCompile(r) ==
    LET td  == TempName(NextFree(disk), <<>>)
        src == Canon(SourcePath(td, reqs[r].name))
    IN
    /\ loopOwner = 0
    /\ reqs[r].pc = "queued" /\ reqs[r].kind = "compile"
    /\ disk' = [dirs |-> disk.dirs \cup {Canon(td)}, files |-> disk.files \cup {src}]
    /\ reqs' = [reqs EXCEPT ![r].tmp = td,
                            ![r].staged = {Canon(td), src},
                            ![r].pc = "staged"]
    /\ loopOwner' = r
    /\ UNCHANGED notLoopVars

\* subprocess.run(...): the child runs, the calling thread waits in it.
SpawnTool(r) ==
    /\ loopOwner = r
    /\ reqs[r].pc = "staged"
    /\ reqs' = [reqs EXCEPT ![r].pc = "wait"]
    /\ UNCHANGED <<loopOwner, disk, notLoopVars>>

\* The child ended or was killed at the timeout; the handler classifies,
\* releases what it staged (os.remove / TemporaryDirectory.__exit__) and
\* returns.
ToolEnds(r) ==
    /\ loopOwner = r
    /\ reqs[r].pc = "wait"
    /\ disk' = IF reqs[r].kind = "install" THEN RemoveFile(disk, reqs[r].tmp)
               ELSE RemoveTree(disk, reqs[r].tmp)
    /\ reqs' = [reqs EXCEPT ![r].pc = "done", ![r].staged = {}]
    /\ loopOwner' = 0
    /\ UNCHANGED notLoopVars

\* The response is sent; the worker forgets the request.
Respond(r) ==
    /\ reqs[r].pc = "done"
    /\ reqs' = [reqs EXCEPT ![r] = NoReq]
    /\ UNCHANGED <<loopOwner, disk, notLoopVars>>

LoopNext ==
    \/ \E r \in ReqIds, kind \in LoopKinds, name \in LoopFileNames \cup {<<>>} :
           Submit(r, kind, name)
    \/ \E r \in ReqIds : BeginCheck(r)
    \/ \E r \in ReqIds, spooled \in BOOLEAN : BeginInstall(r, spooled)
    \/ \E r \in ReqIds : ResumeInstall(r)
    \/ \E r \in ReqIds : BeginCompile(r)
    \/ \E r \in ReqIds : SpawnTool(r)
    \/ \E r \in ReqIds : ToolEnds(r)
    \/ \E r \in ReqIds : Respond(r)

LoopSpec == Init /\ [][LoopNext]_vars

FlashWaiting(r) == reqs[r].kind = "install" /\ reqs[r].pc = "wait"

Queued(q) == reqs[q].pc = "queued" /\ reqs[q].kind \in {"compile", "check_syntax"}

\* C22: while a flash operation waits on its external process, a queued
\* compile or syntax-check request can start (its handler can take the
\* event loop).
C22_OthersStartDuringFlashWait ==
    \A r, q \in ReqIds :
        (FlashWaiting(r) /\ Queued(q)) => ENABLED (BeginCheck(q) \/ BeginCompile(q))

InFlight(r) == reqs[r].pc \in {"reading", "staged", "wait"}

\* C23: no two requests in flight have a staged file or directory in common.
C23_NoSharedStagedPath ==
    \A r, q \in ReqIds :
        (r # q /\ InFlight(r) /\ InFlight(q)) => reqs[r].staged \cap reqs[q].staged = {}

(***************************************************************************)
(* The steps of one operation, told by the handler's position.             *)
(***************************************************************************)
StagePcs == {"create_temp", "read_upload", "resolve", "download", "stage",
             "mkdtemp", "write_source"}
InvokePcs == {"flash", "restore", "spawn"}
WaitPcs == {"flash_wait", "restore_wait", "compile_wait"}

Phase(p) ==
    CASE p \in StagePcs -> 1
      [] p \in InvokePcs -> 2
      [] p \in WaitPcs -> 3
      [] p = "done" -> 4
      [] OTHER -> 0

\* Something the request created leaves the host in this step.
Releases == \E c \in created : c \in (fs.dirs \cup fs.files) /\ c \notin (fs'.dirs \cup fs'.files)

C24_Step ==
    /\ (op' = op) => Phase(pc') >= Phase(pc)
    /\ spawns' <= 1
    /\ (spawns' > spawns) =>
          /\ Phase(pc) = 2 /\ Phase(pc') = 3
          /\ result = NoResult /\ response = NoResponse
    /\ (op' = op /\ created' # created) => (Phase(pc) = 1 /\ spawns = 0)
    /\ (result'.ended = "exited" /\ result.ended # "exited") =>
          (Phase(pc) = 3 /\ spawns = 1 /\ pc' = "done")
    /\ Releases => (pc' = "done" /\ response' # NoResponse)
    /\ (pc' = "done" /\ response'.detail = "mpy_attachment") =>
          Canon(OutputPath(tmpdir, filename)) \in AfterCompiler(fs, result'.wrote).files
    /\ (pc = "done") => (op' = "idle" /\ fs' = fs /\ spawns' = 0)

\* C24: within one flash or compile operation the steps go stage, invoke,
\* classify, release in this order; the external process is started at most
\* once; the artifact is read from the workspace as it is before the
\* release, and after the release the handler does nothing but return.
C24_StageInvokeClassifyRelease == [][C24_Step]_vars

C24_Witness ==
    /\ pc = "done" /\ op = "compile_download"
    /\ spawns = 1 /\ result.ended = "exited" /\ result.rc = 0
    /\ response.detail = "mpy_attachment"
    /\ Workspaces # {} /\ \A w \in Workspaces : Released(w)

(***************************************************************************)
(* The output artifact's path.                                             *)
(***************************************************************************)
Extensions == {".py", ".txt", ".zip", ".bin", ".mpy"}

\* Path p with its extension, when it has one, replaced by .mpy.
WithMpyExtension(p) ==
    IF p # <<>> /\ p[Len(p)] \in Extensions
    THEN SubSeq(p, 1, Len(p) - 1) \o <<".mpy">>
    ELSE p \o <<".mpy">>

\* C25: the compiler is asked to write to the staged source's path with the
\* extension replaced by .mpy, which is never the staged source's own path.
C25_OutputBesideSource ==
    (op \in CompileOps /\ argv # <<>>) =>
        /\ argv[1] = WithMpyExtension(argv[2])
        /\ Canon(argv[1]) # Canon(argv[2])

NotAvailableDetails == {"syntax_valid_mpy_cross_not_available", "mpy_cross_is_not_installed"}

\* C26: the compile variants report the cross-compiler as not available or
\* not installed only when the spawn failed for the missing executable.
C26_NotAvailableOnlyWhenExecutableMissing ==
    (pc = "done" /\ op \in CompileOps /\ response.detail \in NotAvailableDetails) =>
        (result = NotSpawned /\ env.mpycross = "missing")

(***************************************************************************)
(* POST /api/email/send-program.  The handler never awaits: a request is   *)
(* handled from its rate-limit check to its response before the next one   *)
(* starts.                                                                 *)
(***************************************************************************)
\* How the SMTP session of lines 99-102 ends:
\*   "sent"          the server accepted the message and the session closed
\*   "auth_failed"   SMTPAuthenticationError at login
\*   "failed"        any other exception before the message was accepted
\*   "quit_refused"  the server accepted the message and then answered QUIT
\*                   with a code other than 221: SMTP.__exit__ raises
\*                   SMTPResponseException
SmtpOutcomes == {"sent", "auth_failed", "failed", "quit_refused"}

\* smtplib.SMTP(SMTP_HOST, SMTP_PORT, timeout=15)
SMTP_TIMEOUT == 15

\* The seconds a session with the mail server takes.
SmtpDurations == {0, SMTP_TIMEOUT}

\* The seconds between two requests (none: the next request follows at once).
Pauses == {RATE_LIMIT_SECONDS - 1, RATE_LIMIT_SECONDS}

\* retry_after = int(RATE_LIMIT_SECONDS - elapsed) + 1
RetryAfter(elapsed) == (RATE_LIMIT_SECONDS - elapsed) + 1

Tick(d) ==
    /\ clock + d <= StartTime + MaxElapsed
    /\ clock' = clock + d
    /\ UNCHANGED <<rate_limit, accepted, mailResp, notMailVars>>

send_program_email(client_ip, configured, outcome, took) ==
    LET now       == clock
        last_sent == rate_limit[client_ip]
        elapsed   == now - last_sent
    IN
    /\ clock + took <= StartTime + MaxElapsed
    /\ IF elapsed < RATE_LIMIT_SECONDS
       THEN /\ mailResp' = [ip |-> client_ip, status |-> 429,
                            retry_after |-> RetryAfter(elapsed), contacted |-> FALSE]
            /\ UNCHANGED <<clock, rate_limit, accepted>>
       ELSE IF ~configured
       THEN /\ mailResp' = [ip |-> client_ip, status |-> 503, retry_after |-> 0,
                            contacted |-> FALSE]
            /\ UNCHANGED <<clock, rate_limit, accepted>>
       ELSE /\ clock' = clock + took
            /\ accepted' = IF outcome \in {"sent", "quit_refused"}
                           THEN [accepted EXCEPT ![client_ip] = now]
                           ELSE accepted
            /\ rate_limit' = IF outcome = "sent"
                             THEN [rate_limit EXCEPT ![client_ip] = clock']
                             ELSE rate_limit
            /\ mailResp' = [ip |-> client_ip,
                            status |-> IF outcome = "sent" THEN 200 ELSE 500,
                            retry_after |-> 0, contacted |-> TRUE]
    /\ UNCHANGED notMailVars

MailNext ==
    \/ \E d \in Pauses : Tick(d)
    \/ \E ip \in ClientIps, configured \in BOOLEAN, outcome \in SmtpOutcomes,
          took \in SmtpDurations : send_program_email(ip, configured, outcome, took)

MailSpec == Init /\ [][MailNext]_vars

\* C27: two messages of one client IP that the mail server accepted are at
\* least 60 seconds apart, and a request arriving less than 60 seconds after
\* the IP's last successful send is answered 429 with a Retry-After of 1 to
\* 61 seconds, the mail server not being contacted.
C27_Step ==
    \A ip \in ClientIps :
        /\ (accepted'[ip] # accepted[ip] /\ accepted[ip] # 0) =>
              accepted'[ip] - accepted[ip] >= RATE_LIMIT_SECONDS
        /\ (mailResp' # mailResp /\ mailResp'.ip = ip
              /\ clock - rate_limit[ip] < RATE_LIMIT_SECONDS) =>
              /\ mailResp'.status = 429
              /\ mailResp'.retry_after \in 1..61
              /\ ~mailResp'.contacted
              /\ accepted' = accepted

\* C27 holds of every step of the email endpoint.
C27_OneEmailPerMinutePerIp == [][C27_Step]_vars

(***************************************************************************)
(* The program store, /api/programs.  No handler awaits: each request is   *)
(* one step.                                                               *)
(***************************************************************************)
\* JSON null in a request body
None == "<None>"
\* a field the request body does not carry
Unset == "<unset>"

FieldNames == {"name", "python_code", "blockly_xml", "mode"}

\* ProgramCreate: name is required; the other fields have defaults.
ProgramCreate ==
    [name : {"robot"}, python_code : {""}, blockly_xml : {""}, mode : {"python"}]

\* ProgramUpdate: every field is Optional with default None, so the
\* validator takes an explicit null as well as a string.
ProgramUpdate ==
    [name : {Unset, None, "rover"}, python_code : {Unset, None},
     blockly_xml : {Unset}, mode : {Unset}]

\* program.model_dump(exclude_unset=True): the fields the body carried.
model_dump(program) == { f \in FieldNames : program[f] # Unset }

\* The times a request can read once the clock shows at least utcnow.
Stamps == utcnow..MaxStamp

create_program(program, now) ==
    /\ \E id \in ProgramIds : born[id] = 0
    /\ LET program_id == CHOOSE id \in ProgramIds :
                             born[id] = 0 /\ \A j \in 1..(id - 1) : born[j] # 0
           program_data == [id |-> program_id, name |-> program.name,
                            python_code |-> program.python_code,
                            blockly_xml |-> program.blockly_xml,
                            mode |-> program.mode,
                            created_at |-> now, updated_at |-> now]
       IN  /\ programs_db' = [i \in DOMAIN programs_db \cup {program_id} |->
                                 IF i = program_id THEN program_data ELSE programs_db[i]]
           /\ born' = [born EXCEPT ![program_id] = now]
    /\ utcnow' = now
    /\ storeResp' = 201
    /\ UNCHANGED notStoreVars

update_program(program_id, program, now) ==
    /\ IF program_id \notin DOMAIN programs_db
       THEN /\ storeResp' = 404
            /\ UNCHANGED <<programs_db, utcnow>>
       ELSE LET existing == programs_db[program_id]
                update_data == model_dump(program)
                updated == [f \in DOMAIN existing |->
                               IF f \in update_data THEN program[f]
                               ELSE IF f = "updated_at" THEN now
                               ELSE existing[f]]
            IN  /\ programs_db' = [programs_db EXCEPT ![program_id] = updated]
                /\ utcnow' = now
                \* the response model rejects a field that is None
                /\ storeResp' = IF \E f \in FieldNames : updated[f] = None
                                THEN 500 ELSE 200
    /\ UNCHANGED <<born, notStoreVars>>

delete_program(program_id) ==
    /\ IF program_id \notin DOMAIN programs_db
       THEN /\ storeResp' = 404
            /\ UNCHANGED programs_db
       ELSE /\ programs_db' = [i \in DOMAIN programs_db \ {program_id} |-> programs_db[i]]
            /\ storeResp' = 200
    /\ UNCHANGED <<born, utcnow, notStoreVars>>

StoreNext ==
    \/ \E program \in ProgramCreate, now \in Stamps : create_program(program, now)
    \/ \E id \in ProgramIds, program \in ProgramUpdate, now \in Stamps :
           update_program(id, program, now)
    \/ \E id \in ProgramIds : delete_program(id)

StoreSpec == Init /\ [][StoreNext]_vars

WellFormed(db) ==
    \A id \in DOMAIN db :
        /\ db[id].id = id
        /\ db[id].created_at = born'[id]
        /\ \A f \in FieldNames : db[id][f] \notin {None, Unset}

\* C28: after every create, update and delete each stored record is
\* well-formed (its id is its key, its created_at is the time of creation,
\* its name, python_code, blockly_xml and mode are strings), and a request
\* answered 404 leaves the store as it was.
C28_Step ==
    /\ WellFormed(programs_db')
    /\ storeResp' = 404 => programs_db' = programs_db

\* C28 holds of every step of the program store.
C28_StoreWellFormed == [][C28_Step]_vars

(***************************************************************************)
(* POST /api/ai/chat/stream: the server-sent events generate() yields for  *)
(* what the provider sends.                                                *)
(***************************************************************************)
Providers == {"anthropic", "gemini"}

\* What the iteration over resp.aiter_lines() meets next:
\*   "delta"  a data line carrying text (content_block_delta with a
\*            text_delta; a Gemini chunk with a text part)
\*   "stop"   a data line with the event message_stop
\*   "DONE"   the data line "[DONE]"
\*   "junk"   a data line that is not JSON
\*   "raise"  the connection fails: the iteration raises
UpstreamLines == {"delta", "stop", "DONE", "junk", "raise"}

Upstreams == UNION {[1..n -> UpstreamLines] : n \in 0..MaxUpstream}

\* The status codes of the provider's response.
UpstreamStatuses == {200, 429}

Emit(e) == [chat EXCEPT !.events = Append(@, e), !.upstream = Tail(@)]

\* chat_stream: the StreamingResponse starts generate().
chat_stream(provider, status, lines) ==
    /\ chat.pc = "idle"
    /\ chat' = IF status # 200
               THEN [pc |-> "closed", provider |-> provider, upstream |-> lines,
                     events |-> <<"error">>]
               ELSE [pc |-> "lines", provider |-> provider, upstream |-> lines,
                     events |-> <<>>]
    /\ UNCHANGED notChatVars

\* One turn of `async for line in resp.aiter_lines()` in _anthropic_stream.
AnthropicLine ==
    /\ chat.pc = "lines" /\ chat.provider = "anthropic" /\ chat.upstream # <<>>
    /\ LET line == Head(chat.upstream) IN
       chat' = CASE line = "DONE"  -> [Emit("done") EXCEPT !.pc = "closed"]
                 [] line = "delta" -> Emit("text")
                 [] line = "stop"  -> Emit("done")
                 [] line = "junk"  -> [chat EXCEPT !.upstream = Tail(@)]
                 [] line = "raise" -> [Emit("error") EXCEPT !.pc = "closed"]
    /\ UNCHANGED notChatVars

\* One turn of the loop in _gemini_stream: "[DONE]" is not JSON, and an
\* object without candidates yields nothing.
GeminiLine ==
    /\ chat.pc = "lines" /\ chat.provider = "gemini" /\ chat.upstream # <<>>
    /\ LET line == Head(chat.upstream) IN
       chat' = CASE line = "delta" -> Emit("text")
                 [] line \in {"stop", "DONE", "junk"} -> [chat EXCEPT !.upstream = Tail(@)]
                 [] line = "raise" -> [Emit("error") EXCEPT !.pc = "closed"]
    /\ UNCHANGED notChatVars

\* The provider closed the response: the loop ends.  _gemini_stream yields
\* its 'done' after the loop; _anthropic_stream returns.
EndOfLines ==
    /\ chat.pc = "lines" /\ chat.upstream = <<>>
    /\ chat' = [chat EXCEPT !.pc = "closed",
                            !.events = IF chat.provider = "gemini"
                                       THEN Append(@, "done") ELSE @]
    /\ UNCHANGED notChatVars

\* The response is complete; the next stream can start.
ChatClose ==
    /\ chat.pc = "closed"
    /\ chat' = NoChat
    /\ UNCHANGED notChatVars

ChatNext ==
    \/ \E provider \in Providers, status \in UpstreamStatuses, lines \in Upstreams :
           chat_stream(provider, status, lines)
    \/ AnthropicLine
    \/ GeminiLine
    \/ EndOfLines
    \/ ChatClose

ChatSpec == Init /\ [][ChatNext]_vars

Terminal == {"done", "error"}

\* C29: every chat stream emits exactly one terminal event and emits it
\* last: no event follows a terminal event, and a stream that has ended has
\* emitted one.
C29_OneTerminalEventLast ==
    /\ \A i \in 1..(Len(chat.events) - 1) : chat.events[i] \notin Terminal
    /\ chat.pc = "closed" =>
          (chat.events # <<>> /\ chat.events[Len(chat.events)] \in Terminal)

(***************************************************************************)
(* The application: the routers main.py mounts.                            *)
(***************************************************************************)
\* app.include_router(...), main.py lines 35 to 40
MountedRouters == {"programs", "compiler", "examples", "docs", "ai", "email"}

\* The module whose router carries the operation's route.
RouterOf(o) ==
    IF o \in {"check_syntax", "compile", "compile_download"} THEN "compiler"
    ELSE "firmware"

\* What a client calls; "restore_info" is the latest-release lookup of the
\* restore path, GET /lego/restore-info.
ToolchainOps == {"check_syntax"} \cup CompileOps \cup FlashOps \cup {"restore_info"}

\* C30: every toolchain-facing operation is registered with the
\* application: the router that carries the operation a client calls is
\* mounted.
C30_ToolchainRoutersMounted ==
    op \in ToolchainOps => RouterOf(op) \in MountedRouters

====
